---- MODULE Spec2Model ----
(***************************************************************************)
(* A model of the connection lifecycle and protocol framing of the server  *)
(* in src/src/lib.rs: the accept loop (Server::serve), one request and     *)
(* response cycle per connection (Server::serve_client), the bounded       *)
(* request-line parser (receive_request) and the response serializer.      *)
(***************************************************************************)
EXTENDS Integers, Sequences, FiniteSets, TLC

VARIABLES
    stream,     \* parser harness: the bytes the client sends, as [pad, tail]
    accepts,    \* parser harness: whether Request::from_uri accepts the URI
    parsed,     \* parser harness: the result of receive_request, or NotRun
    consumed,   \* parser harness: the bytes receive_request took off the stream
    listener,   \* Server::serve: "running" or "failed" (returned Err)
    acceptErr,  \* the kind of the accept error that serve returned on
    conn,       \* per connection: the state of its serve_client task
    ser,        \* serializer harness: one send_response call
    hs,         \* certificate policy harness: one client authentication
    boot,       \* startup harness: one call of Builder::serve
    tm          \* one connection in detail, with its clock and certificates

vars == <<stream, accepts, parsed, consumed, listener, acceptErr, conn,
          ser, hs, boot, tm>>

parseVars == <<stream, accepts, parsed, consumed>>
serverVars == <<listener, acceptErr, conn>>
harnessVars == <<ser, hs, boot, tm>>

(***************************************************************************)
(* Bounds of the model.                                                    *)
(***************************************************************************)
MaxTail == 3
NumConns == 2
MaxBody == 2
MaxChunk == 2
MaxChain == 3
MaxAccepts == 3
MaxSetTimeout == 2
MaxHandlerTime == 3

(***************************************************************************)
(* Bytes.                                                                  *)
(***************************************************************************)
CR == 13
LF == 10
SP == 32

\* Bytes that may occur in a URI reference; the model uses 'a'.
UriBytes == {97}
LowerA == CHOOSE b \in UriBytes : TRUE

CRLF == <<CR, LF>>

REQUEST_URI_MAX_LEN == 1024

Min2(a, b) == IF a <= b THEN a ELSE b

MinOf(S) == CHOOSE m \in S : \A k \in S : m <= k

\* The bytes of a stream given as pad copies of 'a' followed by tail.
Bytes(st) == [i \in 1..st.pad |-> LowerA] \o st.tail

(***************************************************************************)
(* receive_request                                                         *)
(***************************************************************************)
ErrNotCRLF == "Request header not terminated with CRLF"
ErrTooLong == "Request URI too long"
ErrInvalidURI == "Request URI is invalid"
ErrFromURI == "Failed to create request from URI"

Ok(v) == [ok |-> TRUE, err |-> "", value |-> v]
Err(e) == [ok |-> FALSE, err |-> e, value |-> <<>>]

\* limit = REQUEST_URI_MAX_LEN + "\r\n".len()
LimitWithoutTerminator == REQUEST_URI_MAX_LEN
Limit == REQUEST_URI_MAX_LEN + Len(CRLF)

\* AsyncReadExt::take: at most n bytes of the stream are readable.
takeAll(s, n) == s
take(s, n) == SubSeq(s, 1, Min2(Len(s), n))

\* AsyncBufReadExt::read_until: everything up to and including the first
\* delim, or everything up to the end of the (limited) stream.
read_until(delim, s) ==
    LET hits == {i \in 1..Len(s) : s[i] = delim}
    IN  IF hits = {} THEN s ELSE SubSeq(s, 1, MinOf(hits))

ends_with(s, suffix) ==
    /\ Len(s) >= Len(suffix)
    /\ SubSeq(s, Len(s) - Len(suffix) + 1, Len(s)) = suffix

pop(s) == IF s = <<>> THEN s ELSE SubSeq(s, 1, Len(s) - 1)

\* The error chosen when the bytes read do not end with CR LF.
UnterminatedAlwaysNotCRLF(uri) == ErrNotCRLF
UnterminatedError(uri) ==
    IF Len(uri) < REQUEST_URI_MAX_LEN THEN ErrNotCRLF ELSE ErrTooLong

\* URIReference::try_from: the bytes of a URI reference are drawn from the
\* URI character set; a space and the control characters are outside it.
URIReferenceValid(bs) == \A i \in 1..Len(bs) : bs[i] \notin {SP, CR, LF}

\* Request::from_uri: builds the Request around the validated URI as the
\* client supplied it, or rejects it; the certificate is attached later.
from_uri(uri, accepted) ==
    IF accepted THEN Ok([uri |-> uri, cert |-> "unset"]) ELSE Err(ErrFromURI)

\* The bytes receive_request takes off the stream: what read_until returns
\* from the limited stream.
bytes_consumed(s) == Len(read_until(LF, take(s, Limit)))

receive_request(s, accepted) ==
    LET uri == read_until(LF, take(s, Limit))
    IN  IF ~ends_with(uri, CRLF)
        THEN Err(UnterminatedError(uri))
        ELSE LET stripped == pop(pop(uri))
             IN  IF ~URIReferenceValid(stripped)
                 THEN Err(ErrInvalidURI)
                 ELSE from_uri(stripped, accepted)

(***************************************************************************)
(* The parser on its own: Init draws the client's bytes, the one action    *)
(* applies receive_request to them.                                        *)
(***************************************************************************)
Alphabet == {LowerA, SP, CR, LF}
PadLens == {0, 1} \cup (REQUEST_URI_MAX_LEN - 3 .. REQUEST_URI_MAX_LEN + 2)
Tails == UNION {[1..n -> Alphabet] : n \in 0..MaxTail}
Streams == [pad : PadLens, tail : Tails]

NotRun == [ok |-> FALSE, err |-> "not run", value |-> <<>>]

IdleStream == [pad |-> 0, tail |-> <<>>]

\* The harnesses at rest, while another part of the model is examined.
IdleHarness == [pc |-> "off"]
HarnessesIdle ==
    /\ ser = IdleHarness
    /\ hs = IdleHarness
    /\ boot = IdleHarness
    /\ tm = IdleHarness


ParseRequest ==
    /\ parsed = NotRun
    /\ parsed' = receive_request(Bytes(stream), accepts)
    /\ consumed' = bytes_consumed(Bytes(stream))
    /\ UNCHANGED <<stream, accepts>>

(***************************************************************************)
(* Responses and their serialization.                                      *)
(***************************************************************************)
RECURSIVE Decimal(_)
Decimal(n) ==
    IF n < 10 THEN <<48 + n>> ELSE Decimal(n \div 10) \o <<48 + (n % 10)>>

\* Option<Body>: None, Body::Bytes(bs), or Body::Reader over the bytes bs.
NoBody == [present |-> FALSE, kind |-> "none", bytes |-> <<>>]
BytesBody(bs) == [present |-> TRUE, kind |-> "bytes", bytes |-> bs]
ReaderBody(bs) == [present |-> TRUE, kind |-> "reader", bytes |-> bs]

NoResponse == [status |-> 0, meta |-> <<>>, body |-> NoBody]

\* "text/gemini"
GEMINI_MIME_STR == <<116, 101, 120, 116, 47, 103, 101, 109, 105, 110, 105>>

\* Status of a successful response and of the generic server error.
StatusSuccess == 20
StatusServerError == 50

\* Response::server_error(reason): a header-only response with the server
\* error status whose meta text is the reason given.
server_error(reason) ==
    Ok([status |-> StatusServerError, meta |-> reason, body |-> NoBody])

\* format!("{status} {meta}\r\n")
HeaderBytesNoSpace(resp) == Decimal(resp.status) \o resp.meta \o CRLF
HeaderBytes(resp) == Decimal(resp.status) \o <<SP>> \o resp.meta \o CRLF

(***************************************************************************)
(* Server::serve and Server::serve_client                                  *)
(***************************************************************************)
Conns == 1..NumConns

\* Error values a failing handler returns and payloads it panics with.
Causes == {"cause A", "cause B"}

\* What a handler that succeeds returns.
Responses ==
    { [status |-> StatusSuccess, meta |-> GEMINI_MIME_STR, body |-> NoBody],
      [status |-> StatusSuccess, meta |-> GEMINI_MIME_STR,
       body |-> BytesBody(<<LowerA, LF>>)] }

\* What the clients of the server model send as their request.
ReqStreams ==
    { [pad |-> 1, tail |-> CRLF],
      [pad |-> 1, tail |-> <<LF>>],
      [pad |-> 0, tail |-> <<SP, CR, LF>>],
      [pad |-> REQUEST_URI_MAX_LEN + 2, tail |-> CRLF] }

ErrTls == "Failed to establish TLS session"
ErrReadIo == "Failed to receive request"
ErrRequestTimeout == "Client timed out while waiting for response"
ErrSend == "Failed to send response"
ErrFlush == "Failed to flush response data"
ErrResponseTimeout == "Client timed out receiving response data"

NoOutcome == [kind |-> "none", cause |-> ""]
NoRequest == [uri |-> <<>>, cert |-> "unset"]

InitConn ==
    [pc |-> "idle", err |-> "", request |-> NoRequest, reads |-> 0,
     invoked |-> 0, outcome |-> NoOutcome, resp |-> NoResponse,
     headers |-> 0, wire |-> <<>>]

Terminal == {"done", "error", "panicked"}
RequestPhase == {"tls", "recv"}
ResponsePhase == {"send_header", "send_body", "flush"}

Init ==
    /\ stream = IdleStream
    /\ accepts = TRUE
    /\ parsed = NotRun
    /\ consumed = 0
    /\ listener = "running"
    /\ acceptErr = "none"
    /\ conn = [c \in Conns |-> InitConn]
    /\ HarnessesIdle

\* `?` in serve_client: the task returns Err, which the spawned task logs.
Abort(cn, why) == [cn EXCEPT !.pc = "error", !.err = why]

\* A failure of the request phase (lines 65-79) ends the task.
RequestFailedWithReply(cn, why) ==
    [cn EXCEPT !.pc = "error", !.err = why,
               !.wire = @ \o HeaderBytes(server_error(<<>>).value)]
RequestFailed(cn, why) == Abort(cn, why)

\* A panic that nothing catches inside serve_client unwinds the task that
\* tokio::spawn created, and only that task.
UnwindAll(c, payload) ==
    [d \in Conns |->
        IF d = c
        THEN [conn[d] EXCEPT !.pc = "panicked",
                             !.outcome = [kind |-> "panic", cause |-> payload]]
        ELSE IF conn[d].pc \in Terminal \cup {"idle", "pending"}
             THEN conn[d]
             ELSE [conn[d] EXCEPT !.pc = "panicked"]]
Unwind(c, payload) ==
    [conn EXCEPT ![c].pc = "panicked",
                 ![c].outcome = [kind |-> "panic", cause |-> payload]]

\* The loop of serve is back at accept as soon as the task is spawned.
AcceptReadySequential ==
    /\ listener = "running"
    /\ \A d \in Conns : conn[d].pc \in Terminal \cup {"idle", "pending"}
AcceptReady == listener = "running"

\* A client opens a TCP connection.
Connect(c) ==
    /\ conn[c].pc = "idle"
    /\ conn' = [conn EXCEPT ![c].pc = "pending"]
    /\ UNCHANGED <<listener, acceptErr, parseVars, harnessVars>>

\* listener.accept() returns a stream; serve_client is spawned on it.
AcceptOk(c) ==
    /\ AcceptReady
    /\ conn[c].pc = "pending"
    /\ conn' = [conn EXCEPT ![c].pc = "tls"]
    /\ UNCHANGED <<listener, acceptErr, parseVars, harnessVars>>

\* listener.accept() returns an error: `?` makes serve return it.
AcceptError(kind) ==
    /\ AcceptReady
    /\ listener' = "failed"
    /\ acceptErr' = kind
    /\ UNCHANGED <<conn, parseVars, harnessVars>>

\* tls_acceptor.accept(stream)
TlsHandshake(c) ==
    /\ conn[c].pc = "tls"
    /\ \/ conn' = [conn EXCEPT ![c].pc = "recv"]
       \/ conn' = [conn EXCEPT ![c] = RequestFailed(@, ErrTls)]
    /\ UNCHANGED <<listener, acceptErr, parseVars, harnessVars>>

\* receive_request(&mut stream), then lines 81-91.
ReceiveRequest(c) ==
    /\ conn[c].pc = "recv"
    /\ \/ \E s \in ReqStreams, a \in BOOLEAN :
            LET r == receive_request(Bytes(s), a)
            IN  conn' = [conn EXCEPT ![c] =
                    IF r.ok
                    THEN [@ EXCEPT !.pc = "dispatch", !.reads = @ + 1,
                                   !.request = [r.value EXCEPT !.cert = "none"]]
                    ELSE [RequestFailed(@, r.err) EXCEPT !.reads = @ + 1]]
       \/ conn' = [conn EXCEPT ![c] =
                    [RequestFailed(@, ErrReadIo) EXCEPT !.reads = @ + 1]]
    /\ UNCHANGED <<listener, acceptErr, parseVars, harnessVars>>

\* timeout(self.timeout, fut_accept_request) expires.
RequestTimeout(c) ==
    /\ conn[c].pc \in RequestPhase
    /\ conn' = [conn EXCEPT ![c] = RequestFailed(@, ErrRequestTimeout)]
    /\ UNCHANGED <<listener, acceptErr, parseVars, harnessVars>>

\* (self.handler)(request): the handler function returns its future, or
\* panics before it does.
CallHandler(c) ==
    /\ conn[c].pc = "dispatch"
    /\ \/ conn' = [conn EXCEPT ![c].pc = "polling", ![c].invoked = @ + 1]
       \/ \E p \in Causes :
            conn' = [Unwind(c, p) EXCEPT ![c].invoked = @ + 1]
    /\ UNCHANGED <<listener, acceptErr, parseVars, harnessVars>>

\* HandlerCatchUnwind::new(handler).await with unwrap_or_else and or_else:
\* the future yields a response, yields an error, or panics while polled.
PollHandler(c) ==
    /\ conn[c].pc = "polling"
    /\ \/ \E r \in Responses :
            conn' = [conn EXCEPT ![c].pc = "send_header", ![c].resp = r,
                                 ![c].outcome = [kind |-> "ok", cause |-> ""]]
       \/ \E k \in {"err", "panic"}, e \in Causes :
            LET se == server_error(<<>>)
            IN  conn' = [conn EXCEPT ![c] =
                    IF se.ok
                    THEN [@ EXCEPT !.pc = "send_header", !.resp = se.value,
                                   !.outcome = [kind |-> k, cause |-> e]]
                    ELSE [Abort(@, "Request handler failed") EXCEPT
                                   !.outcome = [kind |-> k, cause |-> e]]]
    /\ UNCHANGED <<listener, acceptErr, parseVars, harnessVars>>

\* send_response_header
SendHeader(c) ==
    /\ conn[c].pc = "send_header"
    /\ conn' = [conn EXCEPT
            ![c].wire = @ \o HeaderBytes(conn[c].resp),
            ![c].headers = @ + 1,
            ![c].pc = IF conn[c].resp.body.present THEN "send_body"
                                                   ELSE "flush"]
    /\ UNCHANGED <<listener, acceptErr, parseVars, harnessVars>>

\* send_response_body
SendBody(c) ==
    /\ conn[c].pc = "send_body"
    /\ conn' = [conn EXCEPT ![c].wire = @ \o conn[c].resp.body.bytes,
                            ![c].pc = "flush"]
    /\ UNCHANGED <<listener, acceptErr, parseVars, harnessVars>>

\* serve_client returns Ok(()) after the flush: the stream is dropped and
\* the connection closed.
AfterFlushKeepAlive == "recv"
AfterFlush == "done"

\* stream.flush()
Flush(c) ==
    /\ conn[c].pc = "flush"
    /\ conn' = [conn EXCEPT ![c].pc = AfterFlush]
    /\ UNCHANGED <<listener, acceptErr, parseVars, harnessVars>>

\* A write or the flush fails.
WriteError(c) ==
    /\ conn[c].pc \in ResponsePhase
    /\ conn' = [conn EXCEPT ![c] =
            Abort(@, IF conn[c].pc = "flush" THEN ErrFlush ELSE ErrSend)]
    /\ UNCHANGED <<listener, acceptErr, parseVars, harnessVars>>

\* timeout(self.timeout, fut_send_and_flush) expires.
ResponseTimeout(c) ==
    /\ conn[c].pc \in ResponsePhase
    /\ conn' = [conn EXCEPT ![c] = Abort(@, ErrResponseTimeout)]
    /\ UNCHANGED <<listener, acceptErr, parseVars, harnessVars>>

ConnStep(c) ==
    \/ TlsHandshake(c)
    \/ ReceiveRequest(c)
    \/ RequestTimeout(c)
    \/ CallHandler(c)
    \/ PollHandler(c)
    \/ SendHeader(c)
    \/ SendBody(c)
    \/ Flush(c)
    \/ WriteError(c)
    \/ ResponseTimeout(c)

Next ==
    \/ \E c \in Conns : Connect(c)
    \/ \E c \in Conns : AcceptOk(c)
    \/ \E kind \in {"transient", "fatal"} : AcceptError(kind)
    \/ \E c \in Conns : ConnStep(c)

Spec == Init /\ [][Next]_vars

NextParse == ParseRequest /\ UNCHANGED <<serverVars, harnessVars>>

InitParse ==
    /\ stream \in Streams
    /\ accepts \in BOOLEAN
    /\ parsed = NotRun
    /\ consumed = 0
    /\ listener = "running"
    /\ acceptErr = "none"
    /\ conn = [c \in Conns |-> InitConn]
    /\ HarnessesIdle

SpecParse == InitParse /\ [][NextParse]_vars

(***************************************************************************)
(* send_response on its own: Init draws the Response, the actions are the  *)
(* steps of send_response, send_response_header and send_response_body.    *)
(***************************************************************************)
\* stream.write_all(bytes)
write_all(out, bytes) == out \o bytes

\* Status codes (u8), meta texts and bodies of the responses serialized.
SerStatuses == {7, 20, 51, 255}
SerMetas == {<<>>, <<LowerA>>, GEMINI_MIME_STR}
SerContents == UNION {[1..n -> {LowerA, LF}] : n \in 0..MaxBody}
SerBodies ==
    {NoBody} \cup {BytesBody(bs) : bs \in SerContents}
             \cup {ReaderBody(bs) : bs \in SerContents}
SerResponses == [status : SerStatuses, meta : SerMetas, body : SerBodies]

InitSend ==
    /\ ser \in [pc : {"header"}, given : SerResponses, resp : SerResponses,
                body : {NoBody}, reads : {0}, out : {<<>>}]
    /\ ser.given = ser.resp
    /\ stream = IdleStream
    /\ accepts = TRUE
    /\ parsed = NotRun
    /\ consumed = 0
    /\ listener = "running"
    /\ acceptErr = "none"
    /\ conn = [c \in Conns |-> InitConn]
    /\ hs = IdleHarness
    /\ boot = IdleHarness
    /\ tm = IdleHarness

\* send_response_header(response.header(), stream), then
\* response.take_body(), which leaves None in the Response.
SerHeader ==
    /\ ser.pc = "header"
    /\ ser' = [ser EXCEPT
            !.out = write_all(@, HeaderBytes(ser.resp)),
            !.body = ser.resp.body,
            !.resp = [@ EXCEPT !.body = NoBody],
            !.pc = IF ser.resp.body.present THEN "body" ELSE "done"]

\* Body::Bytes(bytes) => stream.write_all(&bytes)
SerBytes ==
    /\ ser.pc = "body"
    /\ ser.body.kind = "bytes"
    /\ ser' = [ser EXCEPT !.out = write_all(@, ser.body.bytes),
                          !.body = [@ EXCEPT !.bytes = <<>>],
                          !.pc = "done"]

\* io::copy ends when a read of the reader returns no bytes.
copy_finished_early(b, reads) == b.bytes = <<>> \/ reads >= 1
copy_finished(b, reads) == b.bytes = <<>>

\* Body::Reader(reader) => io::copy(&mut reader, stream): one read of the
\* reader, of any length the buffer allows, and the write of what it read.
SerCopy ==
    /\ ser.pc = "body"
    /\ ser.body.kind = "reader"
    /\ IF copy_finished(ser.body, ser.reads)
       THEN ser' = [ser EXCEPT !.pc = "done", !.reads = @ + 1]
       ELSE \E n \in 1..Min2(MaxChunk, Len(ser.body.bytes)) :
              ser' = [ser EXCEPT
                  !.out = write_all(@, SubSeq(ser.body.bytes, 1, n)),
                  !.body = [@ EXCEPT !.bytes =
                              SubSeq(ser.body.bytes, n + 1, Len(ser.body.bytes))],
                  !.reads = @ + 1]

NextSend ==
    /\ \/ SerHeader
       \/ SerBytes
       \/ SerCopy
    /\ UNCHANGED <<parseVars, serverVars, hs, boot, tm>>

SpecSend == InitSend /\ [][NextSend]_vars

(***************************************************************************)
(* AllowAnonOrSelfsignedClient, and the client authentication of one TLS   *)
(* handshake that consults it.                                             *)
(***************************************************************************)
None == [some |-> FALSE, value |-> <<>>]
Some(v) == [some |-> TRUE, value |-> v]

\* Some(Vec::new())
client_auth_root_subjects(sni) == Some(<<>>)

\* Some(false)
client_auth_mandatory_always(sni) == Some(TRUE)
client_auth_mandatory(sni) == Some(FALSE)

\* Ok(ClientCertVerified::assertion())
verify_client_cert(chain, sni) == Ok("verified")

\* What the TLS library does with the verifier's answers: it gives up when
\* the verifier has no answer for the server name, goes on without client
\* authentication when the client offers no certificate and none is
\* mandatory, and otherwise goes by verify_client_cert.
ClientAuth(sni, chain) ==
    LET subjects == client_auth_root_subjects(sni)
        mandatory == client_auth_mandatory(sni)
    IN  IF ~subjects.some \/ ~mandatory.some
        THEN [result |-> "rejected", advertised |-> None, peer |-> None]
        ELSE IF chain = <<>>
        THEN [result |-> IF mandatory.value THEN "rejected" ELSE "admitted",
              advertised |-> subjects, peer |-> None]
        ELSE IF verify_client_cert(chain, sni).ok
        THEN [result |-> "admitted", advertised |-> subjects,
              peer |-> Some(chain)]
        ELSE [result |-> "rejected", advertised |-> subjects, peer |-> None]

\* Server names the client may indicate, and certificates it may offer.
ServerNames == {None, Some(<<"localhost">>), Some(<<"example.org">>)}
CertKinds == {"self-signed", "ca-signed", "expired"}
Chains == UNION {[1..n -> CertKinds] : n \in 0..MaxChain}

InitTls ==
    /\ hs \in [pc : {"hello"}, sni : ServerNames, chain : Chains,
               auth : {[result |-> "pending", advertised |-> None,
                        peer |-> None]}]
    /\ stream = IdleStream
    /\ accepts = TRUE
    /\ parsed = NotRun
    /\ consumed = 0
    /\ listener = "running"
    /\ acceptErr = "none"
    /\ conn = [c \in Conns |-> InitConn]
    /\ ser = IdleHarness
    /\ boot = IdleHarness
    /\ tm = IdleHarness

Authenticate ==
    /\ hs.pc = "hello"
    /\ hs' = [hs EXCEPT !.pc = "done", !.auth = ClientAuth(hs.sni, hs.chain)]

NextTls == Authenticate /\ UNCHANGED <<parseVars, serverVars, ser, boot, tm>>

SpecTls == InitTls /\ [][NextTls]_vars

(***************************************************************************)
(* Builder::serve: tls_config, then TcpListener::bind, then Server::serve. *)
(***************************************************************************)
CertFiles == {"missing", "undecodable", "no certificate", "ok"}
KeyFiles == {"missing", "undecodable", "no key", "unusable key", "ok"}
Addrs == {"free", "in use"}

ErrTlsConfig == "Failed to create TLS config"
ErrSocket == "Failed to create socket"
ErrAccept == "Failed to accept client"

\* File::open fails on a missing file, pemfile::certs on a PEM section it
\* cannot decode; a file without any certificate section gives an empty
\* chain, which is returned as it is.
load_cert_chain(file) ==
    CASE file = "missing" -> Err("Failed to open cert/cert.pem")
      [] file = "undecodable" -> Err("failed to load certs cert/cert.pem")
      [] file = "no certificate" -> Ok(<<>>)
      [] OTHER -> Ok(<<"leaf">>)

\* As load_cert_chain, with ensure!(!keys.is_empty(), "no key found").
load_key(file) ==
    CASE file = "missing" -> Err("Failed to open cert/key.pem")
      [] file = "undecodable" -> Err("failed to load key cert/key.pem")
      [] file = "no key" -> Err("no key found")
      [] file = "unusable key" -> Ok(<<"unusable">>)
      [] OTHER -> Ok(<<"key">>)

\* config.set_single_cert(cert_chain, key): the TLS library rejects a key
\* it cannot use; whether it looks at the chain is up to the library
\* (strict), the code puts no condition on the chain it passes.
set_single_cert(chain, key, strict) ==
    IF key = <<"unusable">> \/ (strict /\ chain = <<>>)
    THEN Err("Failed to use loaded TLS certificate")
    ELSE Ok(<<>>)

InitBoot ==
    /\ boot \in [pc : {"load_cert_chain"}, certFile : CertFiles,
                 keyFile : KeyFiles, addr : Addrs, chain : {<<>>},
                 key : {<<>>}, socket : {FALSE}, accepted : {0}, err : {""}]
    /\ stream = IdleStream
    /\ accepts = TRUE
    /\ parsed = NotRun
    /\ consumed = 0
    /\ listener = "running"
    /\ acceptErr = "none"
    /\ conn = [c \in Conns |-> InitConn]
    /\ ser = IdleHarness
    /\ hs = IdleHarness
    /\ tm = IdleHarness

BootReturn(why) == [boot EXCEPT !.pc = "returned", !.err = why]

\* tls_config: load_cert_chain()
LoadCertChain ==
    /\ boot.pc = "load_cert_chain"
    /\ LET r == load_cert_chain(boot.certFile)
       IN  boot' = IF r.ok
                   THEN [boot EXCEPT !.pc = "load_key", !.chain = r.value]
                   ELSE BootReturn(ErrTlsConfig)

\* tls_config: load_key()
LoadKey ==
    /\ boot.pc = "load_key"
    /\ LET r == load_key(boot.keyFile)
       IN  boot' = IF r.ok
                   THEN [boot EXCEPT !.pc = "set_single_cert", !.key = r.value]
                   ELSE BootReturn(ErrTlsConfig)

\* tls_config: config.set_single_cert(cert_chain, key)
SetSingleCert ==
    /\ boot.pc = "set_single_cert"
    /\ \E strict \in BOOLEAN :
         boot' = IF set_single_cert(boot.chain, boot.key, strict).ok
                 THEN [boot EXCEPT !.pc = "bind"]
                 ELSE BootReturn(ErrTlsConfig)

\* TcpListener::bind(self.addr)
Bind ==
    /\ boot.pc = "bind"
    /\ boot' = IF boot.addr = "free"
               THEN [boot EXCEPT !.pc = "serve", !.socket = TRUE]
               ELSE BootReturn(ErrSocket)

\* server.serve(): the accept loop, which accepts or returns the error.
BootAccept ==
    /\ boot.pc = "serve"
    /\ \/ /\ boot.accepted < MaxAccepts
          /\ boot' = [boot EXCEPT !.accepted = @ + 1]
       \/ boot' = BootReturn(ErrAccept)

NextBoot ==
    /\ \/ LoadCertChain
       \/ LoadKey
       \/ SetSingleCert
       \/ Bind
       \/ BootAccept
    /\ UNCHANGED <<parseVars, serverVars, ser, hs, tm>>

SpecBoot == InitBoot /\ [][NextBoot]_vars

(***************************************************************************)
(* One connection in detail: the Builder's timeout, the clock against      *)
(* which the two timeout(self.timeout, ..) calls of serve_client run, the  *)
(* certificates of the TLS session, and the steps in their order.          *)
(***************************************************************************)
\* Duration::from_secs(30), in seconds like the clock.
DefaultTimeout == 30

\* The clock stops here; every run of a connection ends before.
ClockCap == 2 * (DefaultTimeout + MaxSetTimeout) + MaxHandlerTime + 1

\* timeout(self.timeout, fut_accept_request), created when serve_client
\* starts, and timeout(self.timeout, fut_send_and_flush), created when the
\* handler has produced the response.
RequestDeadline(start, timeout) == start + timeout
ResponseDeadlineShared(reqStart, respStart, timeout) == reqStart + timeout
ResponseDeadline(reqStart, respStart, timeout) == respStart + timeout

\* The first certificate of the chain the TLS session holds, if any.
client_cert_last(peer) ==
    IF ~peer.some \/ peer.value = <<>>
    THEN None ELSE Some(peer.value[Len(peer.value)])
client_cert(peer) ==
    IF ~peer.some \/ peer.value = <<>> THEN None ELSE Some(peer.value[1])

\* The timeouts expire when the clock has reached the deadline.
RequestTimedOutInHandshake(t) == t.pc = "tls" /\ t.now >= t.deadline
RequestTimedOut(t) == t.pc \in RequestPhase /\ t.now >= t.deadline

ResponseNeverTimedOut(t) == FALSE
ResponseTimedOut(t) == t.pc \in ResponsePhase /\ t.now >= t.deadline

\* Certificate chains the client of this connection may offer.
ClientChains ==
    {<<>>, <<"self-signed">>, <<"ca-signed", "self-signed">>}

InitClient ==
    /\ tm = [pc |-> "builder", timeout |-> DefaultTimeout, set |-> FALSE,
             now |-> 0, deadline |-> 0, reqStart |-> 0, respStart |-> 0,
             handlerTime |-> 0, silent |-> FALSE, offered |-> <<>>,
             peer |-> None, request |-> NoRequest, certSets |-> 0,
             invoked |-> 0, resp |-> NoResponse, headers |-> 0,
             trace |-> <<>>, err |-> ""]
    /\ stream = IdleStream
    /\ accepts = TRUE
    /\ parsed = NotRun
    /\ consumed = 0
    /\ listener = "running"
    /\ acceptErr = "none"
    /\ conn = [c \in Conns |-> InitConn]
    /\ ser = IdleHarness
    /\ hs = IdleHarness
    /\ boot = IdleHarness

TAbort(why) == [tm EXCEPT !.pc = "error", !.err = why]

\* Builder::set_timeout(timeout)
TSetTimeout(d) ==
    /\ tm.pc = "builder"
    /\ tm' = [tm EXCEPT !.timeout = d, !.set = TRUE]

\* Builder::serve copies the timeout into the Server; a connection is
\* accepted and serve_client starts its request phase.
TServeClient ==
    /\ tm.pc = "builder"
    /\ tm' = [tm EXCEPT !.pc = "tls", !.reqStart = tm.now,
                        !.deadline = RequestDeadline(tm.now, tm.timeout)]

\* One second passes: while a handshake, a read, the handler or a write
\* is pending, and not past the deadline of a running timeout.
TTick ==
    /\ tm.now < ClockCap
    /\ \/ tm.pc \in RequestPhase \cup ResponsePhase /\ tm.now < tm.deadline
       \/ tm.pc = "polling" /\ tm.handlerTime < MaxHandlerTime
    /\ tm' = [tm EXCEPT !.now = @ + 1,
                        !.handlerTime =
                            IF tm.pc = "polling" THEN @ + 1 ELSE @]

\* tls_acceptor.accept(stream): the transport fails, or the client is
\* authenticated by the certificate policy; the client then sends its
\* request or stays silent.
THandshake ==
    /\ tm.pc = "tls"
    /\ \/ tm' = TAbort(ErrTls)
       \/ \E sni \in ServerNames, chain \in ClientChains, quiet \in BOOLEAN :
            LET auth == ClientAuth(sni, chain)
            IN  \/ /\ auth.result = "admitted"
                   /\ \E peer \in {auth.peer} \cup
                                  (IF chain = <<>> THEN {Some(<<>>)} ELSE {}) :
                        tm' = [tm EXCEPT !.pc = "recv", !.offered = chain,
                                         !.peer = peer, !.silent = quiet,
                                         !.trace = Append(@, "handshake")]
                \/ /\ auth.result = "rejected"
                   /\ tm' = TAbort(ErrTls)

\* receive_request(&mut stream)
TReceive ==
    /\ tm.pc = "recv"
    /\ ~tm.silent
    /\ \/ \E s \in ReqStreams, a \in BOOLEAN :
            LET r == receive_request(Bytes(s), a)
            IN  tm' = IF r.ok
                      THEN [tm EXCEPT !.pc = "cert", !.request = r.value,
                                      !.trace = Append(@, "parse")]
                      ELSE TAbort(r.err)
       \/ tm' = TAbort(ErrReadIo)

\* The request timeout expires.
TRequestTimeout ==
    /\ RequestTimedOut(tm)
    /\ tm' = TAbort(ErrRequestTimeout)

\* Lines 85-91: get_peer_certificates, request.set_cert(client_cert).
TSetCert ==
    /\ tm.pc = "cert"
    /\ tm' = [tm EXCEPT !.pc = "call", !.certSets = @ + 1,
                        !.request = [@ EXCEPT !.cert = client_cert(tm.peer)],
                        !.trace = Append(@, "cert")]

\* (self.handler)(request)
TCall ==
    /\ tm.pc = "call"
    /\ \/ tm' = [tm EXCEPT !.pc = "polling", !.invoked = @ + 1]
       \/ tm' = [tm EXCEPT !.pc = "panicked", !.invoked = @ + 1]

\* The handler's future completes, with a response or a failure; the
\* response timeout starts.
TPoll ==
    /\ tm.pc = "polling"
    /\ \E r \in Responses \cup {server_error(<<>>).value} :
         tm' = [tm EXCEPT !.pc = "send_header", !.resp = r,
                          !.respStart = tm.now,
                          !.deadline = ResponseDeadline(tm.reqStart, tm.now,
                                                        tm.timeout),
                          !.trace = Append(@, "dispatch")]

\* send_response and stream.flush(), one write at a time.
TSend ==
    /\ \/ /\ tm.pc = "send_header"
          /\ tm' = [tm EXCEPT !.headers = @ + 1,
                              !.pc = IF tm.resp.body.present
                                     THEN "send_body" ELSE "flush"]
       \/ /\ tm.pc = "send_body"
          /\ tm' = [tm EXCEPT !.pc = "flush"]
       \/ /\ tm.pc = "flush"
          /\ tm' = [tm EXCEPT !.pc = AfterFlush,
                              !.trace = Append(@, "serialize")]

\* A write or the flush fails.
TWriteError ==
    /\ tm.pc \in ResponsePhase
    /\ tm' = TAbort(IF tm.pc = "flush" THEN ErrFlush ELSE ErrSend)

\* The response timeout expires.
TResponseTimeout ==
    /\ ResponseTimedOut(tm)
    /\ tm' = TAbort(ErrResponseTimeout)

NextClient ==
    /\ \/ \E d \in 1..MaxSetTimeout : TSetTimeout(d)
       \/ TServeClient
       \/ TTick
       \/ THandshake
       \/ TReceive
       \/ TRequestTimeout
       \/ TSetCert
       \/ TCall
       \/ TPoll
       \/ TSend
       \/ TWriteError
       \/ TResponseTimeout
    /\ UNCHANGED <<parseVars, serverVars, ser, hs, boot>>

SpecClient == InitClient /\ [][NextClient]_vars

\* Time passes, and the timer of a timeout fires once its deadline is
\* reached.
FairSpecClient ==
    /\ SpecClient
    /\ WF_vars(TTick /\ UNCHANGED <<parseVars, serverVars, ser, hs, boot>>)
    /\ WF_vars(TRequestTimeout
                /\ UNCHANGED <<parseVars, serverVars, ser, hs, boot>>)
    /\ WF_vars(TResponseTimeout
                /\ UNCHANGED <<parseVars, serverVars, ser, hs, boot>>)

(***************************************************************************)
(* Properties of the connection lifecycle.                                 *)
(***************************************************************************)
RequestErrors ==
    {ErrTls, ErrReadIo, ErrRequestTimeout,
     ErrNotCRLF, ErrTooLong, ErrInvalidURI, ErrFromURI}

HandlerFailed(cn) == cn.outcome.kind \in {"err", "panic"}

\* C1: a connection whose request phase failed (handshake failure, timeout,
\* or a request line that is too long, not CRLF-terminated or invalid) is
\* aborted: its handler was never invoked and no response byte was written.
RequestFailureAborts ==
    \A c \in Conns :
        conn[c].err \in RequestErrors =>
            /\ conn[c].pc = "error"
            /\ conn[c].invoked = 0
            /\ conn[c].outcome = NoOutcome
            /\ conn[c].wire = <<>>

RequestFailureSeen ==
    \E c, d \in Conns :
        /\ conn[c].err = ErrRequestTimeout
        /\ conn[d].err \in {ErrNotCRLF, ErrTooLong, ErrInvalidURI}
        /\ conn[d].pc = "error"

\* C2: a panic of the handler, at whatever point of its invocation, is
\* caught and turned into the generic server-error response, and the
\* connection goes on to the response phase; its task is not torn down.
HandlerPanicCaught ==
    \A c \in Conns :
        conn[c].outcome.kind = "panic" =>
            /\ conn[c].pc # "panicked"
            /\ conn[c].resp = server_error(<<>>).value

\* C3: a step in which one connection fails (handler error or panic, a
\* timeout in either phase, a protocol or transport error) changes nothing
\* of any other connection and leaves the accept loop as it was.
Failed(cn) == cn.pc \in {"error", "panicked"} \/ HandlerFailed(cn)

IsolatedStep ==
    \A c \in Conns :
        (~Failed(conn[c]) /\ Failed(conn'[c])) =>
            /\ listener' = listener
            /\ \A d \in Conns \ {c} : conn'[d] = conn[d]

FailuresIsolated == [][IsolatedStep]_vars

FailureBesideSuccess ==
    \E c, d \in Conns :
        /\ conn[c].pc = "panicked"
        /\ conn[d].pc = "done"
        /\ conn[d].outcome.kind = "ok"
        /\ listener = "running"

\* C4: while the accept loop runs, a connection waiting to be accepted can
\* be accepted, and an accepted connection can take its next step, whatever
\* state the other connections' tasks are stalled in.
Stalled == {"tls", "recv", "polling", "send_header", "send_body", "flush"}

AcceptNeverWaits ==
    \A c \in Conns :
        /\ (listener = "running" /\ conn[c].pc = "pending") =>
                ENABLED AcceptOk(c)
        /\ conn[c].pc \in Stalled \cup {"dispatch"} => ENABLED ConnStep(c)

ServedBesideStalled ==
    \E c, d \in Conns :
        /\ conn[d].pc = "polling"
        /\ conn[c].pc = "done"
        /\ listener = "running"

\* C5: an accept that fails with a transient error does not end the accept
\* loop; only a listener that became unusable does.
TransientAcceptErrorSurvived ==
    acceptErr = "transient" => listener = "running"

\* C6: any two connections whose handler failed and whose task has ended
\* with the response delivered or with the panic have the same bytes on the
\* wire, whatever the error value or panic payload was.
Over(cn) == cn.pc \in {"done", "panicked"}

HandlerFailureBytesEqual ==
    \A c, d \in Conns :
        (HandlerFailed(conn[c]) /\ Over(conn[c]) /\
         HandlerFailed(conn[d]) /\ Over(conn[d])) =>
            conn[c].wire = conn[d].wire

\* C7: when the handler panicked and the response has been delivered, the
\* bytes on the wire are a header line with a non-empty numeric status, a
\* space, a non-empty meta text and CR LF.
Digits == 48..57

WellFormedHeader(w) ==
    \E k \in 2..Len(w), e \in 1..Len(w) - 1 :
        /\ \A i \in 1..k - 1 : w[i] \in Digits
        /\ w[k] = SP
        /\ e > k + 1
        /\ \A i \in k + 1..e - 1 : w[i] \notin {CR, LF}
        /\ w[e] = CR /\ w[e + 1] = LF

PanicResponseWellFormed ==
    \A c \in Conns :
        (conn[c].outcome.kind = "panic" /\ conn[c].pc = "done") =>
            WellFormedHeader(conn[c].wire)

(***************************************************************************)
(* Properties of receive_request.                                          *)
(***************************************************************************)
Parsed == parsed # NotRun

\* The input is a line of n bytes of a valid URI reference, n at most
\* REQUEST_URI_MAX_LEN, followed by CR LF.
ValidLine(s, n) ==
    /\ Len(s) >= n + 2
    /\ s[n + 1] = CR /\ s[n + 2] = LF
    /\ URIReferenceValid(SubSeq(s, 1, n))

\* C8 as stated: every CRLF-terminated line with at most 1024 bytes of a
\* syntactically valid URI reference is received as a Request with exactly
\* that URI.
ValidLineReceived ==
    Parsed =>
        LET s == Bytes(stream)
        IN  \A n \in 0..REQUEST_URI_MAX_LEN :
                ValidLine(s, n) =>
                    /\ parsed.ok
                    /\ parsed.value.uri = SubSeq(s, 1, n)

\* C8 as amended: every CRLF-terminated line with at most 1024 bytes of a
\* syntactically valid URI reference that Request::from_uri accepts is
\* received as a Request with exactly that URI.
AcceptedValidLineReceived ==
    (Parsed /\ accepts) =>
        LET s == Bytes(stream)
        IN  \A n \in 0..REQUEST_URI_MAX_LEN :
                ValidLine(s, n) =>
                    /\ parsed.ok
                    /\ parsed.value.uri = SubSeq(s, 1, n)

LongestLineReceived ==
    /\ Parsed /\ accepts
    /\ ValidLine(Bytes(stream), REQUEST_URI_MAX_LEN)
    /\ parsed.ok
    /\ Len(parsed.value.uri) = REQUEST_URI_MAX_LEN

\* C9: input of more than 1024 bytes with no line terminator among its
\* first 1026 bytes fails with "Request URI too long".
NoTerminatorInBudget(s) ==
    /\ Len(s) > REQUEST_URI_MAX_LEN
    /\ \A i \in 1..Min2(Len(s), REQUEST_URI_MAX_LEN + 2) : s[i] # LF

OverlongIsTooLong ==
    (Parsed /\ NoTerminatorInBudget(Bytes(stream))) =>
        /\ ~parsed.ok
        /\ parsed.err = ErrTooLong

OverlongSeen ==
    /\ Parsed
    /\ NoTerminatorInBudget(Bytes(stream))
    /\ Len(Bytes(stream)) > REQUEST_URI_MAX_LEN + 2
    /\ parsed.err = ErrTooLong

\* C10: a line whose first LF lies within the first 1026 bytes and is not
\* preceded by CR fails with the not-CRLF-terminated error.
BareLFInBudget(s) ==
    \E k \in 1..Min2(Len(s), REQUEST_URI_MAX_LEN + 2) :
        /\ s[k] = LF
        /\ \A i \in 1..k - 1 : s[i] # LF
        /\ (k = 1 \/ s[k - 1] # CR)

BareLFIsNotCRLF ==
    (Parsed /\ BareLFInBudget(Bytes(stream))) =>
        /\ ~parsed.ok
        /\ parsed.err = ErrNotCRLF

\* C20: receive_request takes at most REQUEST_URI_MAX_LEN + 2 = 1026 bytes
\* off the stream: it stops at the first LF or after 1026 bytes, whichever
\* comes first, and fails when it reached 1026 bytes without an LF.
FirstLFs(s) == {k \in 1..Len(s) : s[k] = LF /\ \A i \in 1..k - 1 : s[i] # LF}

ReadIsBounded ==
    Parsed =>
        LET s == Bytes(stream)
            stop == FirstLFs(s) \cup {REQUEST_URI_MAX_LEN + 2, Len(s)}
        IN  /\ consumed <= REQUEST_URI_MAX_LEN + 2
            /\ \A k \in stop : consumed <= k
            /\ consumed \in stop
            /\ (consumed = REQUEST_URI_MAX_LEN + 2 /\ s[consumed] # LF) =>
                    ~parsed.ok

BudgetExhausted ==
    /\ Parsed
    /\ Len(Bytes(stream)) > REQUEST_URI_MAX_LEN + 2
    /\ consumed = REQUEST_URI_MAX_LEN + 2
    /\ ~parsed.ok

(***************************************************************************)
(* One request and response cycle per connection.                          *)
(***************************************************************************)
\* C16: over the life of a connection at most one request line is read, the
\* handler is invoked at most once, at most one response header is written,
\* and a connection whose task has ended takes no further step.
OneCycleStep ==
    \A c \in Conns :
        /\ conn'[c].reads <= 1
        /\ conn'[c].invoked <= 1
        /\ conn'[c].headers <= 1
        /\ conn[c].pc \in Terminal => conn'[c] = conn[c]

OneCyclePerConnection == [][OneCycleStep]_vars

CycleCompleted ==
    \E c \in Conns :
        /\ conn[c].pc = "done"
        /\ conn[c].reads = 1 /\ conn[c].invoked = 1 /\ conn[c].headers = 1

(***************************************************************************)
(* Properties of send_response.                                            *)
(***************************************************************************)
RECURSIVE DigitsValue(_)
DigitsValue(ds) ==
    IF ds = <<>> THEN 0
    ELSE 10 * DigitsValue(SubSeq(ds, 1, Len(ds) - 1)) + (ds[Len(ds)] - 48)

\* w is the decimal numeral of status, a space, meta, CR LF, and then body.
IsResponseWire(w, status, meta, body) ==
    \E k \in 1..3 :
        /\ Len(w) >= k
        /\ \A i \in 1..k : w[i] \in Digits
        /\ (k = 1 \/ w[1] # 48)
        /\ DigitsValue(SubSeq(w, 1, k)) = status
        /\ SubSeq(w, k + 1, Len(w)) = <<SP>> \o meta \o CRLF \o body

\* "20 text/gemini\r\n"
SuccessHeaderLine ==
    <<50, 48, 32, 116, 101, 120, 116, 47, 103, 101, 109, 105, 110, 105, 13, 10>>

GeminiNoBody ==
    [status |-> StatusSuccess, meta |-> GEMINI_MIME_STR, body |-> NoBody]

\* C14: send_response writes the decimal status, a space, the meta text and
\* CR LF, then the body bytes and nothing else; the whole header is written
\* before any body byte; without a body nothing follows the header line;
\* status 20 with meta text/gemini and no body gives "20 text/gemini\r\n".
ResponseWireExact ==
    /\ ser.pc = "header" => ser.out = <<>>
    /\ ser.pc = "body" =>
            \E bs \in SerContents :
                /\ IsResponseWire(ser.out, ser.given.status, ser.given.meta, bs)
                /\ bs \o ser.body.bytes = ser.given.body.bytes
    /\ ser.pc = "done" =>
            IsResponseWire(ser.out, ser.given.status, ser.given.meta,
                           ser.given.body.bytes)
    /\ (ser.pc = "done" /\ ser.given = GeminiNoBody) =>
            ser.out = SuccessHeaderLine

GeminiHeaderWritten ==
    /\ ser.pc = "done"
    /\ ser.given = GeminiNoBody
    /\ ser.out = SuccessHeaderLine

\* C15: a Response with a Body::Reader over N bytes is serialized to the
\* same bytes as the Response with those N bytes as Body::Bytes; the reader
\* is taken out of the Response and read until it is exhausted.
ReaderSameAsBytes ==
    (ser.pc = "done" /\ ser.given.body.kind = "reader") =>
        /\ ser.out = write_all(write_all(<<>>, HeaderBytes(ser.given)),
                               BytesBody(ser.given.body.bytes).bytes)
        /\ Len(ser.out) =
                Len(HeaderBytes(ser.given)) + Len(ser.given.body.bytes)
        /\ ser.resp.body = NoBody
        /\ ser.body.bytes = <<>>

ReaderCopiedInChunks ==
    /\ ser.pc = "done"
    /\ ser.given.body.kind = "reader"
    /\ Len(ser.given.body.bytes) = MaxBody
    /\ ser.reads > 2

(***************************************************************************)
(* Properties of the certificate policy.                                   *)
(***************************************************************************)
\* C18: whatever server name the client indicates and whatever certificate
\* chain it offers, none or a self-signed one included, the policy admits
\* the client: the advertised CA subjects are empty, a client without a
\* certificate is accepted, and an offered chain is verified as offered.
PolicyNeverRejects ==
    hs.pc = "done" =>
        /\ hs.auth.result = "admitted"
        /\ hs.auth.advertised = Some(<<>>)
        /\ hs.chain = <<>> => hs.auth.peer = None
        /\ hs.chain # <<>> => hs.auth.peer = Some(hs.chain)

SelfSignedAdmitted ==
    /\ hs.pc = "done"
    /\ hs.chain # <<>>
    /\ hs.chain[1] = "self-signed"
    /\ hs.sni = None
    /\ hs.auth.result = "admitted"

(***************************************************************************)
(* Properties of the startup.                                              *)
(***************************************************************************)
\* C17: when the certificate-chain file or the private-key file is missing
\* or malformed, or the TLS configuration cannot be built, serve returns an
\* error without the listening socket ever being opened, and in every
\* failing startup no connection is accepted.
StartupFailsBeforeSocket ==
    /\ (boot.pc # "off" /\ (boot.certFile # "ok" \/ boot.keyFile # "ok")) =>
            /\ ~boot.socket
            /\ boot.pc = "returned" => boot.err = ErrTlsConfig
    /\ (boot.pc = "returned" /\ boot.err \in {ErrTlsConfig, ErrSocket}) =>
            boot.accepted = 0

(***************************************************************************)
(* Properties of one connection: timeouts, certificates, order of steps.   *)
(***************************************************************************)
TmOn == tm.pc # "off"

\* C11: the timeout is 30 seconds unless set_timeout replaced it; it runs
\* once over the request phase and once more, in full, over the response
\* phase, from the moment the handler has finished, however long the
\* request phase and the handler took; no timeout ends the handler.
TimeoutsIndependent ==
    TmOn =>
        /\ ~tm.set => tm.timeout = 30
        /\ tm.pc \in RequestPhase => tm.now <= tm.reqStart + tm.timeout
        /\ tm.pc \in ResponsePhase => tm.now <= tm.respStart + tm.timeout
        /\ tm.err = ErrRequestTimeout =>
                /\ tm.now = tm.reqStart + tm.timeout
                /\ tm.invoked = 0
        /\ tm.err = ErrResponseTimeout =>
                /\ tm.now = tm.respStart + tm.timeout
                /\ tm.respStart >= tm.reqStart
                /\ tm.invoked = 1
        /\ tm.pc = "polling" => tm.err = ""

SlowHandlerAnswered ==
    /\ TmOn
    /\ tm.pc = "done"
    /\ tm.handlerTime > tm.timeout
    /\ tm.respStart > tm.reqStart + tm.timeout
    /\ tm.now = tm.respStart + tm.timeout

\* C12: a client that completed the handshake and then sends nothing has
\* its connection ended by the request timeout, and its handler is never
\* invoked.
SilentClientTimesOut ==
    /\ [](TmOn /\ tm.silent => tm.invoked = 0 /\ tm.pc \in {"recv", "error"})
    /\ (TmOn /\ tm.silent /\ tm.pc = "recv") ~>
            (tm.pc = "error" /\ tm.err = ErrRequestTimeout /\ tm.invoked = 0)

SilentClientClosed ==
    /\ TmOn
    /\ tm.silent
    /\ tm.pc = "error"
    /\ tm.err = ErrRequestTimeout
    /\ tm.now = tm.reqStart + tm.timeout

\* C13: once the handler has completed, the task ends, with the response
\* sent or with an error; an ended task takes no further step, so nothing
\* is retried.
ResponsePhaseEnds ==
    /\ (TmOn /\ tm.pc \in {"send_header", "send_body", "flush"}) ~>
            (tm.pc \in {"done", "error"})
    /\ [][(TmOn /\ tm.pc \in Terminal) => tm' = tm]_vars
    /\ [](TmOn => tm.invoked <= 1 /\ tm.headers <= 1)

TimedOutAfterHeader ==
    /\ TmOn
    /\ tm.pc = "error"
    /\ tm.err = ErrResponseTimeout
    /\ tm.headers = 1

\* C19: the steps of a connection are taken in the order handshake, parse,
\* certificate, dispatch, serialize, each after the one before succeeded;
\* the certificate is attached once, before the handler is invoked, and is
\* the first of the chain the client offered, or none.
StepOrder == <<"handshake", "parse", "cert", "dispatch", "serialize">>

StepInProgress ==
    CASE tm.pc = "tls" -> 1
      [] tm.pc = "recv" -> 2
      [] tm.pc = "cert" -> 3
      [] tm.pc \in {"call", "polling"} -> 4
      [] tm.pc \in {"send_header", "send_body", "flush"} -> 5
      [] tm.pc = "done" -> 6
      [] OTHER -> 0

StepsInOrder ==
    TmOn =>
        /\ Len(tm.trace) <= Len(StepOrder)
        /\ tm.trace = SubSeq(StepOrder, 1, Len(tm.trace))
        /\ StepInProgress > 0 => Len(tm.trace) = StepInProgress - 1
        /\ tm.certSets <= 1
        /\ tm.certSets = 0 => tm.request.cert = "unset"
        /\ tm.pc = "call" \/ tm.invoked > 0 =>
                /\ tm.certSets = 1
                /\ tm.request.cert =
                        IF tm.offered = <<>> THEN None
                                             ELSE Some(tm.offered[1])

FirstOfChainAttached ==
    /\ TmOn
    /\ tm.invoked = 1
    /\ Len(tm.offered) = 2
    /\ tm.request.cert = Some(tm.offered[1])
    /\ tm.pc = "done"

====
